---- MODULE Spec2Model ----
(***************************************************************************)
(* Model of py_2048_rl/learning/learning.py: the epsilon schedule and the  *)
(* batch generator (get_batches), the batch builder                        *)
(* (experiences_to_batches), experience collection (collect_experience)    *)
(* and the training loop (run_training, write_summaries, evaluate).        *)
(*                                                                         *)
(* Floats are modelled as exact rationals <<numerator, denominator>> in    *)
(* lowest terms with a positive denominator.                               *)
(*                                                                         *)
(* The size constants of the module (BATCH_SIZE, GAMES_PER_SHUFFLE, the    *)
(* epsilon thresholds, the checkpoint interval, the number of test and     *)
(* evaluation games) are held at scaled-down values so that TLC can        *)
(* enumerate every permutation of a cycle's experiences; each definition   *)
(* names the value the source gives it.  The numeric factors (GAMMA,       *)
(* MIN_EPSILON, the normalisation factors) keep the source's values, and   *)
(* the pure functions take the constants they read as parameters, so that  *)
(* SpecFn also applies the schedule to the source's own thresholds.        *)
(***************************************************************************)
EXTENDS Integers, Sequences, FiniteSets

VARIABLES
  pc,                 \* position of run_training
  model_global_step,  \* model.global_step: optimization steps applied to the parameters
  global_step,        \* run_training's local global_step, read back by session.run
  test_experiences,   \* run_training's local test_experiences
  gen_pc,             \* position of the get_batches generator: "top" or "inner"
  i,                  \* get_batches: cycle counter of itertools.count()
  epsilon,            \* get_batches: epsilon of the current cycle
  strategy,           \* get_batches: strategy of the current cycle
  experiences,        \* get_batches: experiences of the current cycle
  experience_indices, \* get_batches: np.random.permutation(len(experiences))
  step,               \* get_batches: inner loop counter
  batch_experiences,  \* get_batches: experiences of the batch being yielded
  batch,              \* the batch handed to run_training: <<state_batch, targets, actions>>
  checkpoint,         \* what saver.save last wrote to TRAIN_DIR
  summaries,          \* the global step of the summary last added to summary_writer
  summary_feed,       \* write_summaries: its experiences and the feed built from them
  average_score,      \* the value of evaluate being printed
  games_played,       \* history: episodes played by the generator's collect_experience
  used,               \* history: the indices put into the batches of the current cycle
  log,                \* history: operations since the loop last asked for a batch
  fetched,            \* history: number of batches the loop received
  eval_games,         \* history: the games the last evaluate played, in order
  infer_params,       \* history: model.global_step at the generator's last inference
  call                \* SpecFn: the last application of a pure function

vars == <<pc, model_global_step, global_step, test_experiences, gen_pc, i, epsilon,
          strategy, experiences, experience_indices, step, batch_experiences, batch,
          checkpoint, summaries, summary_feed, average_score, games_played, used,
          log, fetched, eval_games, infer_params, call>>

---------------------------------------------------------------------------
(* Bounds of the model.                                                    *)

\* the generator is followed through cycles 0 .. MaxCycles - 1
MaxCycles == 5
\* SpecFn: longest experience list handed to experiences_to_batches
MaxLen == 4
\* SpecFn: the schedule is applied to every games count 0 .. MaxGames
MaxGames == 210
\* SpecFn: collect_experience is called with num_games 0 .. MaxNumGames
MaxNumGames == 3

---------------------------------------------------------------------------
(* Module constants of learning.py.                                        *)

\* BATCH_SIZE = 32 in the source
BATCH_SIZE == 2
\* GAMES_PER_SHUFFLE = 10 in the source
GAMES_PER_SHUFFLE == 2
\* START_DECREASE_EPSILON_GAMES = 200000 in the source
START_DECREASE_EPSILON_GAMES == 2
\* DECREASE_EPSILON_GAMES = 1000000.0 in the source
DECREASE_EPSILON_GAMES == 4
\* the literal 10000 of run_training's checkpoint test
CHECKPOINT_INTERVAL == 3
\* the literal 100 of collect_experience(100, play.random_strategy)
TEST_GAMES == 1
\* the literal 100 of evaluate's range(100)
EVAL_GAMES == 2
RESUME == FALSE

---------------------------------------------------------------------------
(* Rationals.                                                              *)

Abs(n) == IF n < 0 THEN -n ELSE n

RECURSIVE GCD(_, _)
GCD(a, b) == IF b = 0 THEN a ELSE GCD(b, a % b)

\* n / d in lowest terms, d > 0
R(n, d) == LET g == GCD(Abs(n), d) IN <<n \div g, d \div g>>

Zero == <<0, 1>>
One == <<1, 1>>
RInt(n) == <<n, 1>>
RAdd(a, b) == R(a[1] * b[2] + b[1] * a[2], a[2] * b[2])
RSub(a, b) == R(a[1] * b[2] - b[1] * a[2], a[2] * b[2])
RMul(a, b) == R(a[1] * b[1], a[2] * b[2])
RLt(a, b) == a[1] * b[2] < b[1] * a[2]
RLe(a, b) == a[1] * b[2] <= b[1] * a[2]
\* Python's max(a, b): b only when it is strictly greater
RMax(a, b) == IF RLt(a, b) THEN b ELSE a

MIN_EPSILON == R(1, 10)
GAMMA == R(98, 100)
STATE_NORMALIZE_FACTOR == R(1, 15)
REWARD_NORMALIZE_FACTOR == R(1, 50)

---------------------------------------------------------------------------
(* The game (py_2048_rl.game.play), seen through its interface.            *)

\* a 4 x 4 grid of log2-encoded tiles
BoardA == <<<<0, 0, 0, 0>>, <<0, 1, 0, 0>>, <<0, 0, 0, 0>>, <<0, 0, 1, 0>>>>
BoardB == <<<<1, 2, 1, 2>>, <<2, 1, 2, 1>>, <<1, 2, 1, 3>>, <<2, 1, 3, 15>>>>
BoardC == <<<<2, 1, 2, 1>>, <<1, 2, 1, 2>>, <<3, 1, 2, 1>>, <<1, 3, 1, 2>>>>

\* play.Experience(state, action, reward, next_state, game_over)
Experience(state, action, reward, next_state, game_over) ==
  [state |-> state, action |-> action, reward |-> reward,
   next_state |-> next_state, game_over |-> game_over]

\* what one call of play.play(strategy) can return: (score, experiences), the
\* last experience of an episode being the one with game_over set
Episodes ==
  { [score |-> 0, experiences |-> <<Experience(BoardB, 0, 0, BoardC, TRUE)>>],
    [score |-> 4, experiences |-> <<Experience(BoardA, 1, 4, BoardB, FALSE),
                                    Experience(BoardB, 3, 0, BoardC, TRUE)>>] }

random_strategy == [kind |-> "random"]
make_epsilon_greedy_strategy(eps) == [kind |-> "epsilon_greedy", epsilon |-> eps]
make_greedy_strategy == [kind |-> "greedy"]

\* history: an experience with where, how and under which parameters it was made
Tagged(e, origin, game, pos, strat, params) ==
  [state |-> e.state, action |-> e.action, reward |-> e.reward,
   next_state |-> e.next_state, game_over |-> e.game_over,
   origin |-> origin, game |-> game, pos |-> pos, by |-> strat, params |-> params]

\* the num_games results of play.play(strat), each experience tagged
Plays(num_games, strat, origin, params) ==
  { [g \in 1 .. num_games |->
       [score |-> f[g].score,
        experiences |-> [p \in 1 .. Len(f[g].experiences) |->
                           Tagged(f[g].experiences[p], origin, g, p, strat, params)]]] :
    f \in [1 .. num_games -> Episodes] }

---------------------------------------------------------------------------
(* collect_experience                                                      *)

\* variant: new_experiences + experiences
RECURSIVE CollectLoop_Prepend(_, _, _, _)
CollectLoop_Prepend(acc, plays, g, num_games) ==
  IF g > num_games THEN acc
  ELSE CollectLoop_Prepend(plays[g].experiences \o acc, plays, g + 1, num_games)

\* the for statement: experiences += new_experiences, for each game in turn
RECURSIVE CollectLoop(_, _, _, _)
CollectLoop(acc, plays, g, num_games) ==
  IF g > num_games THEN acc
  ELSE CollectLoop(acc \o plays[g].experiences, plays, g + 1, num_games)

\* variant: range(num_games - 1)
collect_experience_OneLess(num_games, plays) == CollectLoop(<<>>, plays, 1, num_games - 1)

\* plays: the results of the successive calls of play.play, in order
collect_experience(num_games, plays) == CollectLoop(<<>>, plays, 1, num_games)

---------------------------------------------------------------------------
(* The epsilon schedule of get_batches.                                    *)

\* variant: the decay without its floor
EpsilonFor_NoFloor(games, start, decrease, min_epsilon) ==
  IF games < start
  THEN One
  ELSE RSub(One, R(games - start, decrease))

\* variant: min() where the source has max()
EpsilonFor_Min(games, start, decrease, min_epsilon) ==
  IF games < start
  THEN One
  ELSE LET decayed == RSub(One, R(games - start, decrease))
       IN IF RLt(decayed, min_epsilon) THEN decayed ELSE min_epsilon

EpsilonFor(games, start, decrease, min_epsilon) ==
  IF games < start
  THEN One
  ELSE RMax(min_epsilon, RSub(One, R(games - start, decrease)))

Epsilon(games) ==
  EpsilonFor(games, START_DECREASE_EPSILON_GAMES, DECREASE_EPSILON_GAMES, MIN_EPSILON)

---------------------------------------------------------------------------
(* experiences_to_batches                                                  *)

Flatten(board) == board[1] \o board[2] \o board[3] \o board[4]

NormalizeState(board) ==
  LET flat == Flatten(board)
  IN [k \in 1 .. Len(flat) |-> RMul(RInt(flat[k]), STATE_NORMALIZE_FACTOR)]

\* variant: the reward scaled instead of replaced by the factor
NormalizedReward_Scaled(reward) == RMul(RInt(reward), REWARD_NORMALIZE_FACTOR)

\* 0 if experience.reward == 0 else REWARD_NORMALIZE_FACTOR
NormalizedReward(reward) == IF reward = 0 THEN Zero ELSE REWARD_NORMALIZE_FACTOR

\* variant: the Q-value of the first action instead of the maximum
RowMax_First(row) == row[1]

RECURSIVE RowMax(_)
RowMax(row) ==
  IF Len(row) = 1 THEN row[1] ELSE RMax(row[1], RowMax(Tail(row)))

\* variant: the terminal rows keep their continuation value
MaskGameOver_None(max_qs, game_over_batch) == max_qs

\* max_qs[game_over_batch] = 0
MaskGameOver(max_qs, game_over_batch) ==
  [k \in 1 .. Len(max_qs) |-> IF game_over_batch[k] THEN Zero ELSE max_qs[k]]

\* variant: the inference is run whatever GAMMA is
DiscountsFuture_Always(gamma) == TRUE

\* if GAMMA > 0:
DiscountsFuture(gamma) == RLt(Zero, gamma)

\* targets after "if GAMMA > 0:"; predictions is what run_inference returns there
AddDiscounted(targets, game_over_batch, predictions, gamma) ==
  IF DiscountsFuture(gamma)
  THEN LET max_qs == [k \in 1 .. Len(predictions) |-> RowMax(predictions[k])]
           masked == MaskGameOver(max_qs, game_over_batch)
       IN [k \in 1 .. Len(targets) |-> RAdd(targets[k], RMul(gamma, masked[k]))]
  ELSE targets

\* variant: every row of actions is filled from the first experience
experiences_to_batches_FirstAction(exps, predictions, gamma) ==
  LET batch_size == Len(exps)
      state_batch == [k \in 1 .. batch_size |-> NormalizeState(exps[k].state)]
      next_state_batch == [k \in 1 .. batch_size |-> NormalizeState(exps[k].next_state)]
      actions == [k \in 1 .. batch_size |-> exps[1].action]
      targets == [k \in 1 .. batch_size |-> NormalizedReward(exps[k].reward)]
      game_over_batch == [k \in 1 .. batch_size |-> exps[k].game_over]
  IN [ret |-> <<state_batch,
                AddDiscounted(targets, game_over_batch, predictions, gamma),
                actions>>,
      inference |-> IF DiscountsFuture(gamma) THEN <<next_state_batch>> ELSE <<>>]

\* ret: the tuple returned; inference: the arguments of the run_inference calls made
experiences_to_batches(exps, predictions, gamma) ==
  LET batch_size == Len(exps)
      state_batch == [k \in 1 .. batch_size |-> NormalizeState(exps[k].state)]
      next_state_batch == [k \in 1 .. batch_size |-> NormalizeState(exps[k].next_state)]
      actions == [k \in 1 .. batch_size |-> exps[k].action]
      targets == [k \in 1 .. batch_size |-> NormalizedReward(exps[k].reward)]
      game_over_batch == [k \in 1 .. batch_size |-> exps[k].game_over]
  IN [ret |-> <<state_batch,
                AddDiscounted(targets, game_over_batch, predictions, gamma),
                actions>>,
      inference |-> IF DiscountsFuture(gamma) THEN <<next_state_batch>> ELSE <<>>]

\* the rows run_inference can return: one Q-value per action
QRows == { <<R(1, 2), Zero, R(-1, 1), R(3, 2)>>,
           <<R(-1, 1), R(-2, 1), R(-1, 2), R(-3, 1)>> }

Predictions(n) == [1 .. n -> QRows]

---------------------------------------------------------------------------
(* get_batches: the helpers of one cycle.                                  *)

\* np.random.permutation(n); index k of Python is k + 1 here
permutation(n) ==
  { p \in [1 .. n -> 1 .. n] : \A a, b \in 1 .. n : p[a] = p[b] => a = b }

\* variant: the division rounded up
Steps_Ceil(exps) == (Len(exps) + BATCH_SIZE - 1) \div BATCH_SIZE

\* variant: the operands of the division the other way round
Steps_Inverted(exps) == BATCH_SIZE \div Len(exps)

\* steps = len(experiences) // BATCH_SIZE
Steps(exps) == Len(exps) \div BATCH_SIZE

\* variant: experience_indices[step : step + BATCH_SIZE]
BatchIndices_Overlap(indices, s) ==
  LET lo == IF s < Len(indices) THEN s ELSE Len(indices)
      hi == IF s + BATCH_SIZE < Len(indices) THEN s + BATCH_SIZE ELSE Len(indices)
  IN SubSeq(indices, lo + 1, hi)

\* experience_indices[step * BATCH_SIZE : (step + 1) * BATCH_SIZE]
BatchIndices(indices, s) ==
  LET lo == IF s * BATCH_SIZE < Len(indices) THEN s * BATCH_SIZE ELSE Len(indices)
      hi == IF (s + 1) * BATCH_SIZE < Len(indices) THEN (s + 1) * BATCH_SIZE
            ELSE Len(indices)
  IN SubSeq(indices, lo + 1, hi)

\* [experiences[i] for i in batch_indices]
BatchExperiences(exps, batch_indices) ==
  [k \in 1 .. Len(batch_indices) |-> exps[batch_indices[k]]]

---------------------------------------------------------------------------
(* run_training: helpers.                                                  *)

\* variant: without "and global_step != 0"
IsCheckpointStep_AtZero(gs) == gs % CHECKPOINT_INTERVAL = 0

\* global_step % 10000 == 0 and global_step != 0
IsCheckpointStep(gs) == gs % CHECKPOINT_INTERVAL = 0 /\ gs # 0

RECURSIVE SumScores(_, _)
SumScores(plays, n) == IF n = 0 THEN 0 ELSE SumScores(plays, n - 1) + plays[n].score

\* the calls of play.play that evaluate makes: one shown game first if verbose,
\* then the range(100) games
EvaluateGames(verbose) == EVAL_GAMES + (IF verbose THEN 1 ELSE 0)

\* variant: the total of the scores instead of their average
evaluate_Total(plays, verbose) ==
  LET scored == IF verbose THEN Tail(plays) ELSE plays
  IN R(SumScores(scored, EVAL_GAMES), 1)

\* np.average(scores) over the scores of the range(100) games; the result of the
\* game shown when verbose is discarded.  plays: the results of play.play in order
evaluate(plays, verbose) ==
  LET scored == IF verbose THEN Tail(plays) ELSE plays
  IN R(SumScores(scored, EVAL_GAMES), EVAL_GAMES)

\* a float local that is not assigned yet
Unset == <<0, 0>>
NoStrategy == [kind |-> "none"]
\* history tags of the experiences that are not a generator cycle's
TestOrigin == 0 - 1
EvalOrigin == 0 - 2
\* history: no inference has run yet
NoParams == 0 - 1

---------------------------------------------------------------------------
(* The state machine of run_training and the generator it drives.          *)

\* every variable of run_training and of the generator before anything has run
MainInit(position) ==
  /\ pc = position
  /\ model_global_step = 0
  /\ global_step = 0
  /\ test_experiences = <<>>
  /\ gen_pc = "top"
  /\ i = 0
  /\ epsilon = Unset
  /\ strategy = NoStrategy
  /\ experiences = <<>>
  /\ experience_indices = <<>>
  /\ step = 0
  /\ batch_experiences = <<>>
  /\ batch = <<>>
  /\ checkpoint = <<>>
  /\ summaries = <<>>
  /\ summary_feed = <<>>
  /\ average_score = Unset
  /\ games_played = 0
  /\ used = <<>>
  /\ log = <<>>
  /\ fetched = 0
  /\ eval_games = <<>>
  /\ infer_params = NoParams

Init ==
  /\ MainInit("setup")
  /\ call = [op |-> "none"]

gen_vars == <<gen_pc, i, epsilon, strategy, experiences, experience_indices, step,
              batch_experiences, batch, games_played, used, fetched, infer_params>>
loop_vars == <<model_global_step, global_step, test_experiences, checkpoint, summaries,
               summary_feed, average_score, eval_games>>

\* run_training up to the training loop: the model, the session, restore or init
Setup ==
  /\ pc = "setup"
  /\ model_global_step' = IF RESUME /\ checkpoint # <<>> THEN checkpoint[1].params ELSE 0
  /\ pc' = "collect_test"
  /\ log' = Append(log, "init")
  /\ UNCHANGED <<global_step, test_experiences, checkpoint, summaries, summary_feed,
                 average_score, eval_games, gen_vars, call>>

\* test_experiences = collect_experience(100, play.random_strategy)
CollectTest ==
  /\ pc = "collect_test"
  /\ \E plays \in Plays(TEST_GAMES, random_strategy, TestOrigin, model_global_step) :
       test_experiences' = collect_experience(TEST_GAMES, plays)
  /\ pc' = "loop"
  /\ log' = Append(log, "collect_test")
  /\ UNCHANGED <<model_global_step, global_step, checkpoint, summaries, summary_feed,
                 average_score, eval_games, gen_vars, call>>

\* the for statement of run_training asks the generator for its next batch
NextBatch ==
  /\ pc = "loop"
  /\ pc' = "generator"
  /\ average_score' = Unset
  /\ eval_games' = <<>>
  /\ log' = <<>>
  /\ UNCHANGED <<model_global_step, global_step, test_experiences, checkpoint, summaries,
                 summary_feed, gen_vars, call>>

\* get_batches, one cycle up to its inner loop: epsilon, the strategy, the
\* experiences of GAMES_PER_SHUFFLE games and their permutation
GenCollect ==
  /\ pc = "generator"
  /\ gen_pc = "top"
  /\ i < MaxCycles
  /\ LET games == i * GAMES_PER_SHUFFLE
         eps == Epsilon(games)
         strat == make_epsilon_greedy_strategy(eps)
     IN /\ epsilon' = eps
        /\ strategy' = strat
        /\ \E plays \in Plays(GAMES_PER_SHUFFLE, strat, i, model_global_step) :
             /\ experiences' = collect_experience(GAMES_PER_SHUFFLE, plays)
             /\ \E perm \in permutation(Len(experiences')) :
                  experience_indices' = perm
  /\ step' = 0
  /\ used' = <<>>
  /\ games_played' = games_played
                      + Cardinality({ experiences'[k].game : k \in 1 .. Len(experiences') })
  /\ gen_pc' = "inner"
  /\ log' = Append(log, "collect")
  /\ UNCHANGED <<pc, loop_vars, i, batch_experiences, batch, fetched, infer_params, call>>

\* variant: the targets of every batch of a cycle come from an inference run
\* right after the cycle's collection
GenYield_Eager ==
  /\ pc = "generator"
  /\ gen_pc = "inner"
  /\ step < Steps(experiences)
  /\ LET batch_indices == BatchIndices(experience_indices, step)
         batch_exps == BatchExperiences(experiences, batch_indices)
     IN /\ batch_experiences' = batch_exps
        /\ used' = used \o batch_indices
        /\ \E predictions \in Predictions(Len(batch_exps)) :
             LET out == experiences_to_batches(batch_exps, predictions, GAMMA)
             IN /\ batch' = out.ret
                /\ infer_params' = IF out.inference = <<>> THEN infer_params
                                   ELSE experiences[1].params
                /\ log' = log \o [k \in 1 .. Len(out.inference) |-> "infer"] \o <<"yield">>
  /\ step' = step + 1
  /\ fetched' = fetched + 1
  /\ pc' = "train"
  /\ UNCHANGED <<loop_vars, gen_pc, i, epsilon, strategy, experiences,
                 experience_indices, games_played, call>>

\* get_batches, one pass of the inner loop: the next slice of the permutation is
\* built into a batch and yielded; step is the next value of range(steps)
GenYield ==
  /\ pc = "generator"
  /\ gen_pc = "inner"
  /\ step < Steps(experiences)
  /\ LET batch_indices == BatchIndices(experience_indices, step)
         batch_exps == BatchExperiences(experiences, batch_indices)
     IN /\ batch_experiences' = batch_exps
        /\ used' = used \o batch_indices
        /\ \E predictions \in Predictions(Len(batch_exps)) :
             LET out == experiences_to_batches(batch_exps, predictions, GAMMA)
             IN /\ batch' = out.ret
                /\ infer_params' = IF out.inference = <<>> THEN infer_params
                                   ELSE model_global_step
                /\ log' = log \o [k \in 1 .. Len(out.inference) |-> "infer"] \o <<"yield">>
  /\ step' = step + 1
  /\ fetched' = fetched + 1
  /\ pc' = "train"
  /\ UNCHANGED <<loop_vars, gen_pc, i, epsilon, strategy, experiences,
                 experience_indices, games_played, call>>

\* get_batches: the inner loop is exhausted, itertools.count() gives the next i;
\* the cycle's experiences and permutation are not read again
GenLoopEnd ==
  /\ pc = "generator"
  /\ gen_pc = "inner"
  /\ step >= Steps(experiences)
  /\ i' = i + 1
  /\ gen_pc' = "top"
  /\ experiences' = <<>>
  /\ experience_indices' = <<>>
  /\ step' = 0
  /\ used' = <<>>
  /\ UNCHANGED <<pc, loop_vars, epsilon, strategy, batch_experiences, batch,
                 games_played, fetched, infer_params, log, call>>

\* session.run([model.global_step, model.train_op], feed_dict=the batch): one
\* optimization step; the run orders the read of global_step and the increment
\* of train_op either way round.  The batch is not read again after the step.
TrainStep ==
  /\ pc = "train"
  /\ model_global_step' = model_global_step + 1
  /\ \E read \in {model_global_step, model_global_step + 1} :
       /\ global_step' = read
       /\ pc' = IF IsCheckpointStep(read) THEN "save" ELSE "loop"
  /\ batch' = <<>>
  /\ batch_experiences' = <<>>
  /\ log' = Append(log, "train")
  /\ UNCHANGED <<test_experiences, checkpoint, summaries, summary_feed, average_score,
                 eval_games, infer_params, gen_pc, i, epsilon, strategy, experiences, experience_indices, step,
                 games_played, used, fetched, call>>

\* saver.save(session, TRAIN_DIR + "/checkpoint", global_step=global_step)
Save ==
  /\ pc = "save"
  /\ checkpoint' = <<[global_step |-> global_step, params |-> model_global_step]>>
  /\ pc' = "summary"
  /\ log' = Append(log, "save")
  /\ UNCHANGED <<model_global_step, global_step, test_experiences, summaries,
                 summary_feed, average_score, eval_games, gen_vars, call>>

\* variant: the summary is computed over a set collected afresh
WriteSummaries_Recollect ==
  /\ pc = "summary"
  /\ \E plays \in Plays(TEST_GAMES, random_strategy, TestOrigin, model_global_step) :
       /\ test_experiences' = collect_experience(TEST_GAMES, plays)
       /\ \E predictions \in Predictions(Len(test_experiences')) :
            LET out == experiences_to_batches(test_experiences', predictions, GAMMA)
            IN /\ summary_feed' = <<[experiences |-> test_experiences', feed |-> out.ret]>>
               /\ log' = log \o [k \in 1 .. Len(out.inference) |-> "infer"]
                             \o <<"summary">>
  /\ summaries' = <<model_global_step>>
  /\ pc' = "evaluate"
  /\ UNCHANGED <<model_global_step, global_step, checkpoint, average_score, eval_games,
                 gen_vars, call>>

\* variant: the summary run also fetches model.train_op
WriteSummaries_Trains ==
  /\ pc = "summary"
  /\ \E predictions \in Predictions(Len(test_experiences)) :
       LET out == experiences_to_batches(test_experiences, predictions, GAMMA)
       IN /\ summary_feed' = <<[experiences |-> test_experiences, feed |-> out.ret]>>
          /\ log' = log \o [k \in 1 .. Len(out.inference) |-> "infer"] \o <<"summary">>
  /\ summaries' = <<model_global_step>>
  /\ model_global_step' = model_global_step + 1
  /\ pc' = "evaluate"
  /\ UNCHANGED <<global_step, test_experiences, checkpoint, average_score, eval_games,
                 gen_vars, call>>

\* write_summaries(session, run_inference, model, test_experiences, summary_writer)
WriteSummaries ==
  /\ pc = "summary"
  /\ \E predictions \in Predictions(Len(test_experiences)) :
       LET out == experiences_to_batches(test_experiences, predictions, GAMMA)
       IN /\ summary_feed' = <<[experiences |-> test_experiences, feed |-> out.ret]>>
          /\ log' = log \o [k \in 1 .. Len(out.inference) |-> "infer"] \o <<"summary">>
  /\ summaries' = <<model_global_step>>
  /\ pc' = "evaluate"
  /\ UNCHANGED <<model_global_step, global_step, test_experiences, checkpoint,
                 average_score, eval_games, gen_vars, call>>

\* print('Average Score: %f' % evaluate(get_q_values)): verbose keeps its
\* default, False
Evaluate ==
  /\ pc = "evaluate"
  /\ \E plays \in Plays(EvaluateGames(FALSE), make_greedy_strategy, EvalOrigin,
                        model_global_step) :
       /\ average_score' = evaluate(plays, FALSE)
       /\ eval_games' = plays
  /\ summary_feed' = <<>>
  /\ pc' = "loop"
  /\ log' = Append(log, "evaluate")
  /\ UNCHANGED <<model_global_step, global_step, test_experiences, checkpoint, summaries,
                 gen_vars, call>>

Next ==
  \/ Setup
  \/ CollectTest
  \/ NextBatch
  \/ GenCollect
  \/ GenYield
  \/ GenLoopEnd
  \/ TrainStep
  \/ Save
  \/ WriteSummaries
  \/ Evaluate

Spec == Init /\ [][Next]_vars

---------------------------------------------------------------------------
(* Failures.  learning.py has no try statement: an exception raised by    *)
(* play.play, by session.run or by the saver leaves run_training and ends  *)
(* the process.                                                            *)

\* the positions at which run_training is inside a call that can raise
FailurePoints ==
  {"setup", "collect_test", "generator", "train", "save", "summary", "evaluate"}

\* variant: the exception is caught and the loop goes on to its next batch
Fail_Caught ==
  /\ pc \in FailurePoints
  /\ pc' = "loop"
  /\ log' = Append(log, "failure")
  /\ UNCHANGED <<loop_vars, gen_vars, call>>

\* the call run_training is in raises instead of returning: the exception is
\* not handled, the run is over; a save that raises has written no checkpoint
Fail ==
  /\ pc \in FailurePoints
  /\ pc' = "failed"
  /\ log' = Append(log, "failure")
  /\ UNCHANGED <<loop_vars, gen_vars, call>>

NextFail ==
  \/ Setup
  \/ CollectTest
  \/ NextBatch
  \/ GenCollect
  \/ GenYield
  \/ GenLoopEnd
  \/ TrainStep
  \/ Save
  \/ WriteSummaries
  \/ Evaluate
  \/ Fail

SpecFail == Init /\ [][NextFail]_vars

\* run_training is one sequential thread and nothing outside it can hold it
\* up: while no call raises and every call returns, its next statement runs
\* where run_training and the generator stand; every step of Next changes it
position == <<pc, gen_pc>>

\* the positions a statement of run_training hands over to
Successors(p) ==
  CASE p = "setup" -> {"collect_test"}
    [] p = "collect_test" -> {"loop"}
    [] p = "loop" -> {"generator"}
    [] p = "train" -> {"save", "loop"}
    [] p = "save" -> {"summary"}
    [] p = "summary" -> {"evaluate"}
    [] p = "evaluate" -> {"loop"}
    [] OTHER -> {}

\* the control flow of Next: some statement runs and moves the position on.
\* A step of Next is a step of Advance, and Advance is enabled where Next is.
Advance ==
  \/ /\ pc' \in Successors(pc)
     /\ gen_pc' = gen_pc
  \/ /\ pc = "generator"
     /\ \/ gen_pc = "top" /\ i < MaxCycles /\ pc' = pc /\ gen_pc' = "inner"
        \/ gen_pc = "inner" /\ step < Steps(experiences) /\ pc' = "train"
             /\ gen_pc' = gen_pc
        \/ gen_pc = "inner" /\ step >= Steps(experiences) /\ pc' = pc
             /\ gen_pc' = "top"

SpecLive == Init /\ [][Next]_vars /\ WF_position(Advance)

---------------------------------------------------------------------------
(* SpecFn: the pure functions applied to inputs drawn from bounded sets.   *)

\* the thresholds the schedule is applied with: the model's, those of the
\* specification's scenario B, and the source's own
Schedules ==
  { [start |-> START_DECREASE_EPSILON_GAMES, decrease |-> DECREASE_EPSILON_GAMES,
     min_epsilon |-> MIN_EPSILON],
    [start |-> 10, decrease |-> 100, min_epsilon |-> R(1, 10)],
    [start |-> 200000, decrease |-> 1000000, min_epsilon |-> R(1, 10)] }

SampleGames ==
  { b + d : b \in {0, 200000, 700000, 1200000}, d \in 0 .. MaxGames } \cup {199990}

SampleExperiences ==
  { Experience(BoardA, 0, 0, BoardB, TRUE),
    Experience(BoardB, 1, 5, BoardC, TRUE),
    Experience(BoardC, 2, 3, BoardA, TRUE),
    Experience(BoardB, 3, 5, BoardA, FALSE) }

SampleLists == UNION { [1 .. n -> SampleExperiences] : n \in 0 .. MaxLen }

Gammas == {GAMMA, Zero}

\* a call of the schedule, not yet made
EpsilonCall(sched, games) ==
  [op |-> "epsilon", done |-> FALSE, games |-> games, start |-> sched.start,
   decrease |-> sched.decrease, min_epsilon |-> sched.min_epsilon, result |-> Unset]

\* a call of experiences_to_batches, not yet made; predictions is what its
\* run_inference will return if called
BatchCall(exps, predictions, gamma) ==
  [op |-> "experiences_to_batches", done |-> FALSE, exps |-> exps,
   predictions |-> predictions, gamma |-> gamma, out |-> <<>>]

\* a call of collect_experience, not yet made; plays is what the calls of
\* play.play will return, in order, one more than the most it can ask for
CollectCall(num_games, plays) ==
  [op |-> "collect_experience", done |-> FALSE, num_games |-> num_games,
   plays |-> plays, result |-> <<>>]

InitFn ==
  /\ MainInit("none")
  /\ \/ \E sched \in Schedules, games \in SampleGames :
          call = EpsilonCall(sched, games)
     \/ \E exps \in SampleLists, gamma \in Gammas :
          \E predictions \in Predictions(Len(exps)) :
            call = BatchCall(exps, predictions, gamma)
     \/ \E num_games \in 0 .. MaxNumGames :
          \E plays \in Plays(MaxNumGames + 1, random_strategy, TestOrigin, 0) :
            call = CollectCall(num_games, plays)

CallEpsilon ==
  /\ call.op = "epsilon"
  /\ ~call.done
  /\ call' = [call EXCEPT !.done = TRUE,
                          !.result = EpsilonFor(call.games, call.start, call.decrease,
                                                call.min_epsilon)]
  /\ UNCHANGED <<pc, loop_vars, gen_vars, log>>

CallExperiencesToBatches ==
  /\ call.op = "experiences_to_batches"
  /\ ~call.done
  /\ call' = [call EXCEPT !.done = TRUE,
                          !.out = experiences_to_batches(call.exps, call.predictions,
                                                         call.gamma)]
  /\ UNCHANGED <<pc, loop_vars, gen_vars, log>>

CallCollectExperience ==
  /\ call.op = "collect_experience"
  /\ ~call.done
  /\ call' = [call EXCEPT !.done = TRUE,
                          !.result = collect_experience(call.num_games, call.plays)]
  /\ UNCHANGED <<pc, loop_vars, gen_vars, log>>

NextFn ==
  \/ CallEpsilon
  \/ CallExperiencesToBatches
  \/ CallCollectExperience

SpecFn == InitFn /\ [][NextFn]_vars

---------------------------------------------------------------------------
(* Properties of experiences_to_batches and of the schedule, under SpecFn. *)

BatchCallDone == call.op = "experiences_to_batches" /\ call.done
EpsilonCallDone == call.op = "epsilon" /\ call.done

\* the normalized reward of a row, as the claims state it
RewardSignal(e) == IF e.reward = 0 THEN <<0, 1>> ELSE <<1, 50>>

\* v is the largest entry of row
IsMaxOf(v, row) ==
  /\ \E a \in 1 .. Len(row) : row[a] = v
  /\ \A a \in 1 .. Len(row) : RLe(row[a], v)

\* rows holds, row by row, the 16 cells of the boards divided by 15
IsNormalized(rows, boards) ==
  /\ Len(rows) = Len(boards)
  /\ \A k \in 1 .. Len(rows) :
       /\ Len(rows[k]) = 16
       /\ \A r \in 1 .. 4, c \in 1 .. 4 :
            LET cell == rows[k][4 * (r - 1) + c]
            IN cell[2] > 0 /\ cell[1] * 15 = boards[k][r][c] * cell[2]

\* C1: every row whose experience has game_over set gets exactly its
\* normalized reward as target (0 if the reward is 0, else
\* REWARD_NORMALIZE_FACTOR), whatever run_inference returns and whatever
\* GAMMA is.
C1_TerminalTargetIsReward ==
  BatchCallDone =>
    \A k \in 1 .. Len(call.exps) :
      call.exps[k].game_over => call.out.ret[2][k] = RewardSignal(call.exps[k])

\* scenario A: rewards [0, 5, 0, 3], all terminal, GAMMA = 0.98, Q-values not zero
C1_Witness ==
  /\ BatchCallDone
  /\ call.gamma = <<49, 50>>
  /\ Len(call.exps) = 4
  /\ [k \in 1 .. 4 |-> call.exps[k].reward] = <<0, 5, 0, 3>>
  /\ \A k \in 1 .. 4 : call.exps[k].game_over
  /\ \A k \in 1 .. 4 : IsMaxOf(<<3, 2>>, call.predictions[k])
  /\ call.out.ret[2] = <<Zero, REWARD_NORMALIZE_FACTOR, Zero, REWARD_NORMALIZE_FACTOR>>

\* C2: the schedule gives 1.0 below the warm-up threshold and
\* max(MIN_EPSILON, 1.0 - (g - WARMUP_GAMES) / DECAY_GAMES) from the threshold
\* on; with thresholds 10, 100 and 0.1 it gives 1.0 at 0 and at 10, 0.5 at 60
\* and 0.1 at 200.
C2_EpsilonSchedule ==
  EpsilonCallDone =>
    LET g == call.games
        w == call.start
        d == call.decrease
        m == call.min_epsilon
        r == call.result
        x == d - (g - w)
    IN /\ r[2] > 0
       /\ g < w => r = <<1, 1>>
       /\ g >= w => IF x * m[2] > m[1] * d THEN r = R(x, d) ELSE r = m
       /\ (w = 10 /\ d = 100 /\ m = <<1, 10>>) =>
            /\ g = 0 => r = <<1, 1>>
            /\ g = 10 => r = <<1, 1>>
            /\ g = 60 => r = <<1, 2>>
            /\ g = 200 => r = <<1, 10>>

C2_Witness ==
  /\ EpsilonCallDone
  /\ call.start = 10 /\ call.decrease = 100 /\ call.min_epsilon = <<1, 10>>
  /\ call.games = 60
  /\ call.result = <<1, 2>>

\* C5 as stated: the batch returned has four arrays (state_batch,
\* next_state_batch, targets, actions), each of the input's length.
C5_FourArrays ==
  BatchCallDone =>
    /\ Len(call.out.ret) = 4
    /\ \A a \in 1 .. 4 : Len(call.out.ret[a]) = Len(call.exps)

\* C5, amended: the batch returned has three arrays (state_batch, targets,
\* actions), each of the input's length N, and row k of each is derived from
\* experience k: the state divided by 15, the action, and the reward signal
\* plus, when GAMMA > 0 and the row is not terminal, GAMMA times the largest
\* Q-value of row k.  next_state_batch has N rows too, row k being next_state
\* k divided by 15, but it is only handed to run_inference, not returned.
C5_ThreeAlignedArrays ==
  BatchCallDone =>
    LET n == Len(call.exps)
        ret == call.out.ret
    IN /\ Len(ret) = 3
       /\ \A a \in 1 .. 3 : Len(ret[a]) = n
       /\ IsNormalized(ret[1], [k \in 1 .. n |-> call.exps[k].state])
       /\ \A k \in 1 .. n : ret[3][k] = call.exps[k].action
       /\ \A k \in 1 .. n :
            \/ ret[2][k] = RewardSignal(call.exps[k])
            \/ \E v \in {call.predictions[k][a] : a \in 1 .. 4} :
                 /\ IsMaxOf(v, call.predictions[k])
                 /\ ret[2][k] = RAdd(RewardSignal(call.exps[k]), RMul(call.gamma, v))
       /\ \A c \in 1 .. Len(call.out.inference) :
            IsNormalized(call.out.inference[c],
                         [k \in 1 .. n |-> call.exps[k].next_state])

\* three rows that differ in state, action, reward and game_over
C5_Witness ==
  /\ BatchCallDone
  /\ Len(call.exps) = 3
  /\ Len(call.out.ret) = 3
  /\ call.exps[1].action # call.exps[2].action
  /\ call.exps[2].action # call.exps[3].action
  /\ call.exps[1].action # call.exps[3].action
  /\ call.out.ret[3] = [k \in 1 .. 3 |-> call.exps[k].action]
  /\ call.out.ret[1][1] # call.out.ret[1][2]
  /\ call.out.ret[2][1] # call.out.ret[2][2]

\* C6: with GAMMA > 0, a row that is not terminal gets the reward signal plus
\* GAMMA times the largest Q-value of its row of the predictions, and the
\* predictions come from one run_inference call on the normalized
\* next_state batch.
C6_BellmanTarget ==
  (BatchCallDone /\ RLt(<<0, 1>>, call.gamma)) =>
    /\ Len(call.out.inference) = 1
    /\ IsNormalized(call.out.inference[1],
                    [k \in 1 .. Len(call.exps) |-> call.exps[k].next_state])
    /\ \A k \in 1 .. Len(call.exps) :
         ~call.exps[k].game_over =>
           \E v \in {call.predictions[k][a] : a \in 1 .. 4} :
             /\ IsMaxOf(v, call.predictions[k])
             /\ call.out.ret[2][k] = RAdd(RewardSignal(call.exps[k]), RMul(call.gamma, v))

\* reward 5, not terminal, largest Q-value 3/2: 1/50 + 0.98 * 3/2 = 149/100
C6_Witness ==
  /\ BatchCallDone
  /\ call.gamma = <<49, 50>>
  /\ Len(call.exps) = 2
  /\ call.exps[2].reward = 5 /\ ~call.exps[2].game_over
  /\ IsMaxOf(<<3, 2>>, call.predictions[2])
  /\ call.predictions[2][1] # <<3, 2>>
  /\ call.out.ret[2][2] = <<149, 100>>

\* C7: with GAMMA = 0 every target is the reward signal of its row, terminal
\* or not, whatever run_inference would return, and run_inference is not
\* called.
C7_GammaZero ==
  (BatchCallDone /\ call.gamma = <<0, 1>>) =>
    /\ call.out.inference = <<>>
    /\ \A k \in 1 .. Len(call.exps) : call.out.ret[2][k] = RewardSignal(call.exps[k])

C7_Witness ==
  /\ BatchCallDone
  /\ call.gamma = <<0, 1>>
  /\ Len(call.exps) = 2
  /\ ~call.exps[1].game_over /\ call.exps[1].reward = 5
  /\ call.exps[2].game_over /\ call.exps[2].reward = 0
  /\ IsMaxOf(<<3, 2>>, call.predictions[1])
  /\ call.out.ret[2] = <<REWARD_NORMALIZE_FACTOR, Zero>>
  /\ call.out.inference = <<>>

---------------------------------------------------------------------------
(* Properties of the generator and of the training loop, under Spec.       *)

IsLoopOperation(e) == e # "infer"

\* the operations of the loop logged after the batch was yielded, the
\* inference calls made inside them left out
AfterYield(l) ==
  LET p == CHOOSE k \in 1 .. Len(l) : l[k] = "yield"
  IN SelectSeq(SubSeq(l, p + 1, Len(l)), IsLoopOperation)

\* C3: within a cycle over n experiences the indices put into the batches
\* are pairwise distinct, each batch takes the BATCH_SIZE experiences its
\* indices name, and when the cycle's batches are all yielded
\* floor(n / BATCH_SIZE) * BATCH_SIZE indices are used and n mod BATCH_SIZE
\* experiences are in no batch.
C3_CyclePartition ==
  gen_pc = "inner" =>
    LET n == Len(experiences)
    IN /\ \A a, b \in 1 .. Len(used) : used[a] = used[b] => a = b
       /\ \A a \in 1 .. Len(used) : used[a] \in 1 .. n
       /\ Len(used) = step * BATCH_SIZE
       /\ step <= n \div BATCH_SIZE
       /\ pc = "train" =>
            batch_experiences =
              [k \in 1 .. BATCH_SIZE |-> experiences[used[Len(used) - BATCH_SIZE + k]]]
       /\ (pc = "generator" /\ step = n \div BATCH_SIZE) =>
            /\ Len(used) = (n \div BATCH_SIZE) * BATCH_SIZE
            /\ Cardinality({k \in 1 .. n : \A a \in 1 .. Len(used) : used[a] # k})
                 = n % BATCH_SIZE

\* a cycle of three experiences: one batch, one experience left over
C3_Witness ==
  /\ gen_pc = "inner"
  /\ pc = "generator"
  /\ Len(experiences) = 3
  /\ step = 1
  /\ Len(used) = 2
  /\ Cardinality({k \in 1 .. 3 : \A a \in 1 .. Len(used) : used[a] # k}) = 1

\* C4: every batch fetched is followed by exactly one optimization step, and
\* the step is followed by save, summary and evaluation, in this order, if
\* and only if the step counter read back is a non-zero multiple of the
\* checkpoint interval; otherwise by none of them.
C4_OneStepPerBatch ==
  /\ pc = "train" => fetched = model_global_step + 1
  /\ pc # "train" => fetched = model_global_step
  /\ pc \in {"save", "summary", "evaluate"} =>
       global_step # 0 /\ global_step % CHECKPOINT_INTERVAL = 0
  /\ (pc = "loop" /\ fetched > 0) =>
       AfterYield(log) =
         IF global_step # 0 /\ global_step % CHECKPOINT_INTERVAL = 0
         THEN <<"train", "save", "summary", "evaluate">>
         ELSE <<"train">>

C4_Witness ==
  /\ pc = "loop"
  /\ global_step = CHECKPOINT_INTERVAL
  /\ AfterYield(log) = <<"train", "save", "summary", "evaluate">>

\* C8: the epsilon of every cycle lies in [MIN_EPSILON, 1.0], it is 1.0 in
\* cycle 0, it never increases from one cycle to the next, and in every
\* cycle whose games count has reached START_DECREASE_EPSILON_GAMES +
\* DECREASE_EPSILON_GAMES it is MIN_EPSILON.
C8_EpsilonOverCycles ==
  /\ [](epsilon # Unset =>
          /\ RLe(<<1, 10>>, epsilon)
          /\ RLe(epsilon, <<1, 1>>))
  /\ []((gen_pc = "inner" /\ i = 0) => epsilon = <<1, 1>>)
  /\ []((gen_pc = "inner"
         /\ i * GAMES_PER_SHUFFLE >= START_DECREASE_EPSILON_GAMES + DECREASE_EPSILON_GAMES)
        => epsilon = <<1, 10>>)
  /\ [][epsilon # Unset => RLe(epsilon', epsilon)]_vars

\* a cycle past the end of the decay, after a cycle inside it
C8_Witness ==
  /\ gen_pc = "inner"
  /\ i * GAMES_PER_SHUFFLE > START_DECREASE_EPSILON_GAMES + DECREASE_EPSILON_GAMES
  /\ epsilon = MIN_EPSILON

\* C9: a batch yielded in cycle i holds exactly BATCH_SIZE experiences, all
\* of them collected in cycle i, none of them from an earlier cycle and none
\* of them from the held-out set.
C9_BatchFromOwnCycle ==
  /\ gen_pc = "inner" =>
       \A k \in 1 .. Len(experiences) : experiences[k].origin = i
  /\ pc = "train" =>
       /\ gen_pc = "inner"
       /\ Len(batch_experiences) = BATCH_SIZE
       /\ \A a \in 1 .. 3 : Len(batch[a]) = BATCH_SIZE
       /\ \A k \in 1 .. Len(batch_experiences) :
            /\ batch_experiences[k].origin = i
            /\ batch_experiences[k].origin # TestOrigin
            /\ \A t \in 1 .. Len(test_experiences) :
                 batch_experiences[k] # test_experiences[t]

\* the second batch of the second cycle
C9_Witness ==
  /\ pc = "train"
  /\ i = 1
  /\ step = 2
  /\ Len(batch_experiences) = BATCH_SIZE
  /\ \A k \in 1 .. Len(batch_experiences) : batch_experiences[k].origin = 1

\* C10: the held-out set is collected once, at start-up, under the random
\* strategy and before any optimization step; afterwards it never changes,
\* no experience of it is in a batch handed to an optimization step, and
\* every summary is computed over it.
C10_HeldOutSetFixed ==
  /\ [](pc \in {"setup", "collect_test"} =>
          /\ test_experiences = <<>>
          /\ fetched = 0
          /\ model_global_step = 0)
  /\ [](pc \notin {"setup", "collect_test"} =>
          /\ test_experiences # <<>>
          /\ \A k \in 1 .. Len(test_experiences) :
               /\ test_experiences[k].by = [kind |-> "random"]
               /\ test_experiences[k].params = 0
               /\ test_experiences[k].origin = TestOrigin)
  /\ [](pc = "train" =>
          \A k \in 1 .. Len(batch_experiences), t \in 1 .. Len(test_experiences) :
            batch_experiences[k] # test_experiences[t])
  /\ [](summary_feed # <<>> =>
          /\ summary_feed[1].experiences = test_experiences
          /\ \A a \in 1 .. 3 : Len(summary_feed[1].feed[a]) = Len(test_experiences))
  /\ [][pc # "collect_test" => test_experiences' = test_experiences]_vars

\* the second summary of a run, over the set collected at start-up
C10_Witness ==
  /\ pc = "evaluate"
  /\ model_global_step >= 2 * CHECKPOINT_INTERVAL
  /\ summary_feed # <<>>
  /\ summary_feed[1].experiences = test_experiences
  /\ Len(test_experiences) = 2


---------------------------------------------------------------------------
(* Properties of evaluate, of failures and of the order of the activities. *)

\* C11: the step of run_training that calls evaluate plays exactly EVAL_GAMES
\* episodes, each a game of its own under the greedy strategy; the value it
\* returns is the arithmetic mean of the scores of exactly those episodes; and
\* the step leaves model.global_step (the parameters) and global_step as they
\* were.
C11_EvaluateObserves ==
  [][pc = "evaluate" =>
       /\ Len(eval_games') = EVAL_GAMES
       /\ \A g \in 1 .. Len(eval_games') :
            \A p \in 1 .. Len(eval_games'[g].experiences) :
              LET e == eval_games'[g].experiences[p]
              IN e.by = make_greedy_strategy /\ e.origin = EvalOrigin /\ e.game = g
       /\ average_score'[2] > 0
       /\ average_score'[1] * Len(eval_games')
            = SumScores(eval_games', Len(eval_games')) * average_score'[2]
       /\ model_global_step' = model_global_step
       /\ global_step' = global_step]_vars

\* an evaluation after the first checkpoint: scores 4 and 0, average 2
C11_Witness ==
  /\ pc = "loop"
  /\ Len(eval_games) = EVAL_GAMES
  /\ eval_games[1].score = 4
  /\ eval_games[2].score = 0
  /\ average_score = <<2, 1>>
  /\ model_global_step = CHECKPOINT_INTERVAL


\* history: an exception has been raised
HasFailed == \E k \in 1 .. Len(log) : log[k] = "failure"

\* C12: once a call has raised, nothing runs any more: no batch is fetched, no
\* optimization step, checkpoint, summary or evaluation is executed (no step
\* at all is taken); the step that raises writes neither checkpoint nor
\* summary and changes no parameter; and the checkpoint only ever changes in a
\* save that completes, so what is persisted after the failure is what the
\* last completed save wrote.
C12_FailureEndsRun ==
  [][/\ ~HasFailed
     /\ HasFailed' =>
          /\ checkpoint' = checkpoint
          /\ summaries' = summaries
          /\ fetched' = fetched
          /\ model_global_step' = model_global_step
          /\ average_score' = average_score
     /\ checkpoint' # checkpoint =>
          /\ pc = "save"
          /\ pc' = "summary"
          /\ checkpoint' = <<[global_step |-> global_step,
                              params |-> model_global_step]>>]_vars

\* the second save raises: the checkpoint is still the one of the first save
C12_Witness ==
  /\ HasFailed
  /\ Len(log) >= 2
  /\ log[Len(log) - 1] = "train"
  /\ global_step = 2 * CHECKPOINT_INTERVAL
  /\ checkpoint # <<>>
  /\ checkpoint[1].global_step = CHECKPOINT_INTERVAL

\* the generator can still be followed to its next yield: itertools.count()
\* has not run past the cycles of the model
WithinCycles ==
  \/ i < MaxCycles - 1
  \/ /\ i = MaxCycles - 1
     /\ gen_pc = "top" \/ step < Steps(experiences)

\* C13: while every episode ends and no call raises, every request for the
\* next batch (the loop waiting on the generator) is answered with a batch,
\* every batch received is followed by its optimization step, whatever number
\* of optimization steps has been made one more follows (the loop does not end
\* by itself), every step of the loop and of the generator is a step of the
\* control flow that fairness drives, and every cycle gives at least one
\* batch.  The generator is followed through the cycles of the model.
C13_BatchesKeepComing ==
  /\ (pc = "generator" /\ WithinCycles) ~> (pc = "train" /\ batch # <<>>)
  /\ (pc = "train") ~> (pc # "train" /\ model_global_step = fetched)
  /\ \A n \in 0 .. 2 * MaxCycles :
       (WithinCycles /\ model_global_step = n) ~> (model_global_step = n + 1)
  /\ [][Advance]_vars
  /\ [](gen_pc = "inner" => Steps(experiences) >= 1)

\* the loop waits on the generator in its last but one cycle, after as many
\* optimization steps as that cycle and the ones before it can have given
C13_Witness ==
  /\ pc = "generator"
  /\ WithinCycles
  /\ i = MaxCycles - 2
  /\ gen_pc = "inner"
  /\ step = Steps(experiences)
  /\ model_global_step = 2 * (MaxCycles - 1)

---------------------------------------------------------------------------
(* The range of the targets, under SpecFn.                                 *)

\* every Q-value of what run_inference returned
QValues(predictions) ==
  UNION { { predictions[k][a] : a \in 1 .. Len(predictions[k]) } :
          k \in 1 .. Len(predictions) }

Lowest(S) == CHOOSE x \in S : \A y \in S : RLe(x, y)
Highest(S) == CHOOSE x \in S : \A y \in S : RLe(y, x)

\* C14 as stated: every target lies in the range that REWARD_NORMALIZE_FACTOR
\* and GAMMA determine, from 0 to REWARD_NORMALIZE_FACTOR / (1 - GAMMA), the
\* discounted sum of the largest reward signal, whatever run_inference returns.
C14_TargetsInFixedRange ==
  BatchCallDone =>
    \A k \in 1 .. Len(call.exps) :
      LET t == call.out.ret[2][k]
      IN /\ RLe(Zero, t)
         /\ RLe(RMul(t, RSub(One, call.gamma)), REWARD_NORMALIZE_FACTOR)

\* C14: the target of a row with game_over set, and every target when GAMMA is
\* not positive, is 0 or REWARD_NORMALIZE_FACTOR; the target of any other row
\* is bounded by the Q-values that run_inference returned: with lo the lowest
\* and hi the highest of them it lies between GAMMA * lo and
\* REWARD_NORMALIZE_FACTOR + GAMMA * hi.
C14_TargetsFollowQValues ==
  BatchCallDone =>
    \A k \in 1 .. Len(call.exps) :
      LET t == call.out.ret[2][k]
      IN IF call.exps[k].game_over \/ ~RLt(Zero, call.gamma)
         THEN t \in {Zero, REWARD_NORMALIZE_FACTOR}
         ELSE /\ RLe(RMul(call.gamma, Lowest(QValues(call.predictions))), t)
              /\ RLe(t, RAdd(REWARD_NORMALIZE_FACTOR,
                             RMul(call.gamma, Highest(QValues(call.predictions)))))

\* a row that is not terminal, reward 5, highest Q-value 1.5: its target is
\* 0.02 + 0.98 * 1.5 = 1.49, above 0.02 / (1 - 0.98) = 1; and one of
\* Q-values all negative, highest -0.5: its target is 0.02 - 0.49 = -0.47
C14_Witness ==
  /\ BatchCallDone
  /\ call.gamma = <<49, 50>>
  /\ Len(call.exps) = 2
  /\ ~call.exps[1].game_over /\ call.exps[1].reward = 5
  /\ ~call.exps[2].game_over /\ call.exps[2].reward = 5
  /\ IsMaxOf(<<3, 2>>, call.predictions[1])
  /\ IsMaxOf(<<-1, 2>>, call.predictions[2])
  /\ call.out.ret[2] = <<<<149, 100>>, <<-47, 100>>>>

---------------------------------------------------------------------------
(* The order of collection, target computation, training and evaluation.   *)

\* every experience of exps was made under the parameters of step count params
MadeUnder(exps, params) == \A k \in 1 .. Len(exps) : exps[k].params = params

\* C15: the parameters change in the optimization step of the loop and nowhere
\* else: not in a cycle's collection, not in a batch's target computation, not
\* in the save, the summary or the evaluation.  So all experiences of a cycle
\* are made under one set of parameters, a batch waiting for its step has its
\* targets from the parameters that step starts from, and the checkpoint, the
\* summary and the evaluation that follow one step all see the parameters that
\* step left.
C15_Sequential ==
  /\ [][/\ model_global_step' # model_global_step =>
             pc = "train" /\ model_global_step' = model_global_step + 1
        /\ pc \in {"collect_test", "generator", "save", "summary", "evaluate"} =>
             model_global_step' = model_global_step]_vars
  /\ [](experiences # <<>> => MadeUnder(experiences, experiences[1].params))
  /\ [](pc = "train" => infer_params = model_global_step)
  /\ [](pc = "summary" => checkpoint = <<[global_step |-> global_step,
                                          params |-> model_global_step]>>)
  /\ [](pc = "evaluate" => /\ checkpoint[1].params = model_global_step
                           /\ summaries = <<model_global_step>>)
  /\ [](eval_games # <<>> =>
          /\ checkpoint[1].params = model_global_step
          /\ summaries = <<model_global_step>>
          /\ \A g \in 1 .. Len(eval_games) :
               MadeUnder(eval_games[g].experiences, model_global_step))

\* after an evaluation, with the experiences of the running cycle collected
\* before the optimization steps made since
C15_Witness ==
  /\ pc = "loop"
  /\ eval_games # <<>>
  /\ MadeUnder(eval_games[1].experiences, model_global_step)
  /\ experiences # <<>>
  /\ Len(experiences) = 4
  /\ MadeUnder(experiences, model_global_step - 1)
  /\ checkpoint[1].params = model_global_step

\* exps is made of whole episodes 1 .. n, one after the other: each ends with
\* its only experience that has game_over set
WholeEpisodes(exps, n) ==
  /\ { exps[k].game : k \in 1 .. Len(exps) } = 1 .. n
  /\ \A k \in 1 .. Len(exps) :
       exps[k].game_over <=> (k = Len(exps) \/ exps[k + 1].game # exps[k].game)

\* C16: when cycle i starts, the generator has played i * GAMES_PER_SHUFFLE
\* episodes, and that count is the one its epsilon is computed from; the cycle
\* then plays GAMES_PER_SHUFFLE whole episodes, all under the one strategy built
\* with that epsilon, and no batch of the cycle is yielded before they are all
\* played.
C16_GamesCount ==
  /\ [](gen_pc = "top" => games_played = i * GAMES_PER_SHUFFLE)
  /\ [][gen_pc = "top" /\ gen_pc' = "inner" =>
          /\ epsilon' = EpsilonFor(games_played, START_DECREASE_EPSILON_GAMES,
                                   DECREASE_EPSILON_GAMES, MIN_EPSILON)
          /\ fetched' = fetched]_vars
  /\ [](gen_pc = "inner" =>
          /\ games_played = (i + 1) * GAMES_PER_SHUFFLE
          /\ strategy = make_epsilon_greedy_strategy(epsilon)
          /\ WholeEpisodes(experiences, GAMES_PER_SHUFFLE)
          /\ \A k \in 1 .. Len(experiences) :
               experiences[k].by = strategy /\ experiences[k].origin = i)
  /\ [][fetched' # fetched =>
          gen_pc = "inner" /\ WholeEpisodes(experiences, GAMES_PER_SHUFFLE)]_vars

\* cycle 3 has played its episodes and yielded nothing yet: 8 games in all,
\* the epsilon of 6 games
C16_Witness ==
  /\ pc = "generator"
  /\ gen_pc = "inner"
  /\ i = 3
  /\ step = 0
  /\ games_played = 4 * GAMES_PER_SHUFFLE
  /\ epsilon = MIN_EPSILON
  /\ Len(experiences) = 3

\* C17: the inference that gives batch k its targets runs when k - 1
\* optimization steps have been made, those on all the batches before it, and
\* the step on batch k comes after it; step being the number of batches the
\* cycle has yielded, the experiences of the batch were all made at the cycle's
\* collection, step - 1 optimization steps before that inference.
C17_LazyBatches ==
  /\ [](fetched > 0 => infer_params = fetched - 1)
  /\ [](pc = "train" =>
          /\ model_global_step = infer_params
          /\ Len(log) >= 2
          /\ log[Len(log) - 1] = "infer"
          /\ log[Len(log)] = "yield"
          /\ batch_experiences # <<>>
          /\ MadeUnder(batch_experiences, infer_params - (step - 1))
          /\ MadeUnder(experiences, infer_params - (step - 1)))
  /\ [][pc = "train" => /\ model_global_step' = infer_params + 1
                        /\ infer_params' = infer_params]_vars

\* the second batch of a cycle waits for its step: its targets are from the
\* parameters after the step on the first, its experiences from before it
C17_Witness ==
  /\ pc = "train"
  /\ step = 2
  /\ fetched = 4
  /\ infer_params = 3
  /\ MadeUnder(batch_experiences, 2)

---------------------------------------------------------------------------
(* collect_experience, under SpecFn.                                       *)

CollectCallDone == call.op = "collect_experience" /\ call.done

\* C18: collect_experience uses the results of exactly the first num_games
\* games; what it returns starts with the first experience of game 1, goes on
\* within a game to that game's next experience and from the last experience
\* of a game to the first of the next game, ends with the last experience of
\* game num_games, and holds every experience as the game gave it: nothing is
\* dropped, repeated or moved.  For num_games = 0 it is empty.
C18_FlatConcatenation ==
  CollectCallDone =>
    LET n == call.num_games
        res == call.result
        last(g) == Len(call.plays[g].experiences)
    IN /\ n = 0 => res = <<>>
       /\ n > 0 =>
            /\ res # <<>>
            /\ res[1].game = 1 /\ res[1].pos = 1
            /\ res[Len(res)].game = n /\ res[Len(res)].pos = last(n)
       /\ \A k \in 1 .. Len(res) :
            /\ res[k].game \in 1 .. n
            /\ res[k].pos \in 1 .. last(res[k].game)
            /\ res[k] = call.plays[res[k].game].experiences[res[k].pos]
            /\ k < Len(res) =>
                 IF res[k].pos < last(res[k].game)
                 THEN res[k + 1].game = res[k].game /\ res[k + 1].pos = res[k].pos + 1
                 ELSE res[k + 1].game = res[k].game + 1 /\ res[k + 1].pos = 1

\* three games of 2, 1 and 2 experiences, a fourth not asked for: 5 experiences
C18_Witness ==
  /\ CollectCallDone
  /\ call.num_games = 3
  /\ [g \in 1 .. 4 |-> Len(call.plays[g].experiences)] = <<2, 1, 2, 2>>
  /\ Len(call.result) = 5
  /\ [k \in 1 .. 5 |-> call.result[k].game] = <<1, 1, 2, 3, 3>>

====
